---- MODULE Spec2Model ----
(***************************************************************************)
(* Model of package servhttp: handler registration, listener mode          *)
(* selection (ServeAutoCert) and the shutdown coordination of              *)
(* ServeAndShutdown / Shutdown.                                            *)
(*                                                                         *)
(* The package exists in two revisions that are both modelled:             *)
(*   rev = "serv" : src/serv.go            (router + Stop field)           *)
(*   rev = "map"  : src/unnamed/part_000   (HandlerMap + cancel context)   *)
(*                                                                         *)
(* Two goroutines take part in ServeAndShutdown: the coordinator (the      *)
(* caller, position pc) and the listener goroutine (position lpc).  The    *)
(* environment delivers SIGINT/SIGTERM, opens and finishes requests and    *)
(* lets time pass.  Durations are counted in minutes.                      *)
(***************************************************************************)
EXTENDS Integers, Sequences, FiniteSets

VARIABLES
    rev,              \* which revision of the package is running
    timeoutShutdown,  \* s.timeoutShutdown / s.timeoutServerShutdown
    domains,          \* the argument of ServeAndShutdown
    pc,               \* position of the coordinator
    lpc,              \* position of the listener goroutine
    lerr,             \* value returned by ServeAutoCert
    Stop,             \* buffer of the Stop channel (capacity StopCap)
    notified,         \* signal.Notify(quit, SIGINT, SIGTERM) has run
    inShutdown,       \* http.Server.Shutdown has been called
    mode,             \* listener started by ServeAutoCert
    tlsConfig,        \* s.Server.TLSConfig
    inflight,         \* requests being served
    elapsed,          \* minutes since Server.Shutdown was called
    ctx,              \* the context of ServeAndShutdown (part_000 only)
    result,           \* value returned by Shutdown
    log,              \* lines written to the logger
    hist,             \* lifecycle states entered so far
    sigs,             \* signals delivered to the process
    dropped,          \* signals the signal package could not hand over
    consumed,         \* events received by the select of Shutdown
    shutdownCalls,    \* calls of http.Server.Shutdown
    listens,          \* calls of ListenAndServe / ListenAndServeTLS
    cancels,          \* times the context went from active to canceled
    parked,           \* the coordinator has blocked in the select
    firstEvent,       \* the event source that fired first
    recv,             \* the error the select received from Stop
    pending,          \* requests in flight when Server.Shutdown returned
    lnerr,            \* error of closing the listeners in Server.Shutdown
    idleAt,           \* minute of the drain in which the last request in
                      \* flight finished (-1: none yet)
    router,           \* patterns registered in the ServeMux (serv.go)
    hmap,             \* the caller's HandlerMap (part_000)
    handler,          \* s.Handler as installed by HandlersRegistration
                      \* (at: the registration calls made before it)
    panicked,         \* a registration call panicked
    lastReg,          \* the handler last registered for each pattern
    nreg,             \* registration calls made
    logger,           \* s.Logger
    errorLog,         \* s.Server.ErrorLog
    addr,             \* s.Server.Addr
    ncfg,             \* Config calls made
    lastCfg,          \* the last Config call: its arguments and the
                      \* logger and timeout it found
    auth,             \* the layers AddAuthFunc has put around s.Handler,
                      \* the outermost last
    resp              \* the last request served and its answer

lifeVars == <<rev, timeoutShutdown, domains, pc, lpc, lerr, Stop, notified,
              inShutdown, mode, tlsConfig, inflight, elapsed, ctx, result,
              log, hist, sigs, dropped, consumed, shutdownCalls, listens,
              cancels, parked, firstEvent, recv, pending, lnerr, idleAt>>

regVars == <<router, hmap, handler, panicked, lastReg, nreg>>

cfgVars == <<logger, errorLog, addr, ncfg, lastCfg>>

authVars == <<auth, resp>>

vars == <<lifeVars, regVars, cfgVars, authVars>>

----------------------------------------------------------------------------
\* Bounds of the model.

MaxSignals  == 2
MaxInflight == 2
MaxTimeout  == 2
MaxDomains  == 2
MaxRegs     == 3
MaxConfigs  == 2
MaxAuth     == 2

\* The clock of the drain runs on past every timeout.
MaxElapsed  == MaxTimeout + 1

\* Program constants.

\* time.Minute, the default of timeoutShutdown, in minutes.
DefaultTimeout == 1
\* make(chan error, 1)
StopCap == 1

Revisions == {"serv", "map"}
Hosts     == {"a.example", "b.example", "c.example"}
Patterns  == {"/", "/new"}
Handlers  == {"h1", "h2"}
Funcs     == {"f1", "f2"}

RECURSIVE SeqsUpTo(_, _)
SeqsUpTo(S, n) ==
    IF n = 0 THEN {<<>>}
    ELSE LET shorter == SeqsUpTo(S, n - 1)
         IN  shorter \cup {Append(s, x) : s \in shorter, x \in S}

Range(s) == {s[i] : i \in 1..Len(s)}

----------------------------------------------------------------------------
\* Values.

\* What closing the listeners in http.Server.Shutdown can give.
ListenerCloseErrors == {"none", "close"}

NoResult        == [tag |-> "pending",  err |-> "none"]
NilResult       == [tag |-> "nil",      err |-> "none"]
ListenError(e)  == [tag |-> "listen",   err |-> e]
ShutdownError(e) == [tag |-> "shutdown", err |-> e]

NilMap   == [nil |-> TRUE,  m |-> <<>>]
EmptyMap == [nil |-> FALSE, m |-> <<>>]

\* Lifecycle states of the server.
FullLifecycle == <<"NotStarted", "Running", "ShuttingDown", "Stopped">>

Enter(h, s) == IF h[Len(h)] = s THEN h ELSE Append(h, s)

\* context.CancelFunc: the first call cancels, later calls do nothing.
Cancel(c) == IF c = "active" THEN "canceled" ELSE c
CancelCount(c, n) == IF c = "active" THEN n + 1 ELSE n

Alive == pc \notin {"fatal", "killed"}

----------------------------------------------------------------------------
\* Construction.

TimeoutValues == -1..MaxTimeout

\* New: serv.go starts with time.Minute and Config stores any non-zero
\* duration; part_000 stores the duration it is given as it is.
NewTimeouts(r) ==
    IF r = "serv" THEN TimeoutValues \ {0} ELSE TimeoutValues

NoTLS == [nil |-> TRUE, set |-> FALSE, hosts |-> {}]

\* The tls.Config that net/http's Serve stores in a server that has none when
\* it sets up HTTP/2: no certificate source and no host policy.
DefaultTLS == [nil |-> FALSE, set |-> FALSE, hosts |-> {}]

InitLife ==
    /\ pc = "idle"
    /\ lpc = "none"
    /\ lerr = "none"
    /\ Stop = <<>>
    /\ notified = FALSE
    /\ inShutdown = FALSE
    /\ mode = "none"
    /\ tlsConfig = NoTLS
    /\ inflight = 0
    /\ elapsed = 0
    /\ ctx = "none"
    /\ result = NoResult
    /\ log = <<>>
    /\ hist = <<"NotStarted">>
    /\ sigs = 0
    /\ dropped = 0
    /\ consumed = 0
    /\ shutdownCalls = 0
    /\ listens = 0
    /\ cancels = 0
    /\ parked = FALSE
    /\ firstEvent = "none"
    /\ recv = "none"
    /\ pending = -1
    /\ lnerr = "none"
    /\ idleAt = -1

\* s.Handler before HandlersRegistration has installed a router.
NoHandler == [set |-> FALSE, m |-> <<>>, at |-> 0]

InitReg ==
    /\ router = <<>>
    /\ handler = NoHandler
    /\ panicked = FALSE
    /\ lastReg = <<>>
    /\ nreg = 0

\* Loggers: nil, the logger New of serv.go makes, and loggers of the caller.
Loggers == {"nil", "stdout", "l1", "l2"}
Addrs   == {":4443", ":0"}

NoCfg   == [l |-> "nil", t |-> 0, logger |-> "nil", timeout |-> 0]
NoResp  == [path |-> "none", ok |-> {}, out |-> <<"none">>, at |-> <<0, 0>>]

\* New of serv.go: logger := log.New(os.Stdout, ...), used as Logger and as
\* ErrorLog; New of part_000 stores the logger it is given in both.
NewLogger(r, l) == IF r = "serv" THEN "stdout" ELSE l

InitCfg(l, a) ==
    /\ logger = NewLogger(rev, l)
    /\ errorLog = NewLogger(rev, l)
    /\ addr = a
    /\ ncfg = 0
    /\ lastCfg = NoCfg

InitAuth ==
    /\ auth = <<>>
    /\ resp = NoResp

Init ==
    /\ rev \in Revisions
    /\ timeoutShutdown \in NewTimeouts(rev)
    /\ domains \in SeqsUpTo(Hosts, MaxDomains)
    /\ InitLife
    /\ InitReg
    /\ InitCfg("l1", ":4443")
    /\ InitAuth
    /\ hmap = EmptyMap

----------------------------------------------------------------------------
\* The coordinator: ServeAndShutdown and Shutdown.

\* ServeAndShutdown up to its call of Shutdown: part_000 makes the context
\* and the stop channel, both start the listener goroutine, serv.go logs.
Start ==
    /\ pc = "idle"
    /\ pc' = "spawned"
    /\ lpc' = "spawned"
    /\ ctx' = IF rev = "map" THEN "active" ELSE "none"
    /\ Stop' = <<>>
    /\ log' = IF rev = "serv" THEN Append(log, "server started") ELSE log
    /\ hist' = Enter(hist, "Running")
    /\ UNCHANGED <<rev, timeoutShutdown, domains, lerr, notified, inShutdown,
                   mode, tlsConfig, inflight, elapsed, result, sigs, dropped,
                   consumed, shutdownCalls, listens, cancels, parked,
                   firstEvent, recv, pending, lnerr, idleAt, regVars, cfgVars,
                   authVars>>

\* quit := make(chan os.Signal); signal.Notify(quit, SIGINT, SIGTERM)
Notify ==
    /\ pc = "spawned"
    /\ pc' = "select"
    /\ notified' = TRUE
    /\ UNCHANGED <<rev, timeoutShutdown, domains, lpc, lerr, Stop, inShutdown,
                   mode, tlsConfig, inflight, elapsed, ctx, result, log, hist,
                   sigs, dropped, consumed, shutdownCalls, listens, cancels,
                   parked, firstEvent, recv, pending, lnerr, idleAt, regVars, cfgVars,
                   authVars>>

\* The select reaches its cases: a value buffered in Stop is received at
\* once; quit is unbuffered and its sender never waits, so it is never ready
\* here, and with Stop empty the goroutine parks on both channels.
Select ==
    /\ pc = "select"
    /\ IF Len(Stop) > 0
       THEN /\ pc' = "gotStop"
            /\ recv' = Head(Stop)
            /\ Stop' = Tail(Stop)
            /\ consumed' = consumed + 1
            /\ UNCHANGED parked
       ELSE /\ pc' = "waiting"
            /\ parked' = TRUE
            /\ UNCHANGED <<recv, Stop, consumed>>
    /\ UNCHANGED <<rev, timeoutShutdown, domains, lpc, lerr, notified,
                   inShutdown, mode, tlsConfig, inflight, elapsed, ctx, result,
                   log, hist, sigs, dropped, shutdownCalls, listens, cancels,
                   firstEvent, pending, lnerr, idleAt, regVars, cfgVars,
                   authVars>>

\* Variant of StopBranch: the listener-error branch of part_000 returns
\* without calling cancel().
StopBranchNoCancel ==
    /\ pc = "gotStop"
    /\ pc' = "ret"
    /\ result' = ListenError(recv)
    /\ hist' = Enter(hist, "Stopped")
    /\ UNCHANGED <<rev, timeoutShutdown, domains, lpc, lerr, Stop, notified,
                   inShutdown, mode, tlsConfig, inflight, elapsed, ctx, log,
                   sigs, dropped, consumed, shutdownCalls, listens, cancels,
                   parked, firstEvent, recv, pending, lnerr, idleAt, regVars, cfgVars,
                   authVars>>

\* case err := <-stop: (cancel();) return fmt.Errorf("listen: %v\n", err)
StopBranch ==
    /\ pc = "gotStop"
    /\ pc' = "ret"
    /\ ctx' = IF rev = "map" THEN Cancel(ctx) ELSE ctx
    /\ cancels' = IF rev = "map" THEN CancelCount(ctx, cancels) ELSE cancels
    /\ result' = ListenError(recv)
    /\ hist' = Enter(hist, "Stopped")
    /\ UNCHANGED <<rev, timeoutShutdown, domains, lpc, lerr, Stop, notified,
                   inShutdown, mode, tlsConfig, inflight, elapsed, log, sigs,
                   dropped, consumed, shutdownCalls, listens, parked,
                   firstEvent, recv, pending, lnerr, idleAt, regVars, cfgVars,
                   authVars>>

\* The lines Shutdown prints when the stop begins and when it is complete.
StartLine == IF rev = "serv" THEN "server shutdown ..." ELSE "Shutdown Server ..."
CompleteLine == IF rev = "serv" THEN "server shut down" ELSE "Server exiting"

\* case <-quit: then the shutdown-start line (and cancel() in part_000).
QuitBranch ==
    /\ pc = "gotQuit"
    /\ pc' = "stopping"
    /\ log' = Append(log, StartLine)
    /\ ctx' = IF rev = "map" THEN Cancel(ctx) ELSE ctx
    /\ cancels' = IF rev = "map" THEN CancelCount(ctx, cancels) ELSE cancels
    /\ UNCHANGED <<rev, timeoutShutdown, domains, lpc, lerr, Stop, notified,
                   inShutdown, mode, tlsConfig, inflight, elapsed, result,
                   hist, sigs, dropped, consumed, shutdownCalls, listens,
                   parked, firstEvent, recv, pending, lnerr, idleAt, regVars, cfgVars,
                   authVars>>

\* context.WithTimeout(..., s.timeoutShutdown) and the call of
\* s.Server.Shutdown(ctxTimeout): the listeners close, which may give an
\* error that Server.Shutdown keeps for its return, and the drain starts with
\* the first poll of the connections still to come.
CallServerShutdown ==
    /\ pc = "stopping"
    /\ pc' = "polling"
    /\ inShutdown' = TRUE
    /\ shutdownCalls' = shutdownCalls + 1
    /\ elapsed' = 0
    /\ \E e \in ListenerCloseErrors : lnerr' = e
    /\ idleAt' = IF inflight = 0 THEN 0 ELSE -1
    /\ hist' = Enter(hist, "ShuttingDown")
    /\ UNCHANGED <<rev, timeoutShutdown, domains, lpc, lerr, Stop, notified,
                   mode, tlsConfig, inflight, ctx, result, log, sigs, dropped,
                   consumed, listens, cancels, parked, firstEvent, recv,
                   pending, regVars, cfgVars, authVars>>

\* Variant of DrainOver: Server.Shutdown is called with a context that has
\* no deadline.
DrainOverNoDeadline == pc = "polling" /\ inflight = 0

\* http.Server.Shutdown loops: when its poll finds no request in flight it
\* returns the error of closing the listeners (nil when there was none);
\* otherwise it waits in a select for the poll timer or for the context, and
\* returns the context's error when the context is done.
DrainOver ==
    \/ pc = "polling" /\ inflight = 0
    \/ pc = "draining" /\ elapsed >= timeoutShutdown
DrainError == IF pc = "polling" THEN lnerr ELSE "deadline"

\* The poll finds a request in flight: Server.Shutdown waits in its select.
PollBusy ==
    /\ pc = "polling"
    /\ inflight > 0
    /\ pc' = "draining"
    /\ UNCHANGED <<rev, timeoutShutdown, domains, lpc, lerr, Stop, notified,
                   inShutdown, mode, tlsConfig, inflight, elapsed, ctx, result,
                   log, hist, sigs, dropped, consumed, shutdownCalls, listens,
                   cancels, parked, firstEvent, recv, pending, lnerr, idleAt, regVars, cfgVars,
                   authVars>>

\* The poll timer fires in the select: Server.Shutdown polls again.
PollTimer ==
    /\ pc = "draining"
    /\ pc' = "polling"
    /\ UNCHANGED <<rev, timeoutShutdown, domains, lpc, lerr, Stop, notified,
                   inShutdown, mode, tlsConfig, inflight, elapsed, ctx, result,
                   log, hist, sigs, dropped, consumed, shutdownCalls, listens,
                   cancels, parked, firstEvent, recv, pending, lnerr, idleAt, regVars, cfgVars,
                   authVars>>

\* Variant of ShutdownReturn: the error of http.Server.Shutdown is ignored.
ShutdownReturnIgnoresError(err) == NilResult

\* if err := s.Server.Shutdown(ctxTimeout); err != nil { return
\* fmt.Errorf("server shutdown: %s", err) }; return nil
ShutdownReturn(err) ==
    IF err # "none" THEN ShutdownError(err) ELSE NilResult

\* s.Println("server shut down") / s.Println("Server exiting") is reached on
\* the nil path only.
ShutdownLog(l, err) ==
    IF err # "none" THEN l ELSE Append(l, CompleteLine)

ServerShutdownReturns ==
    /\ pc \in {"polling", "draining"}
    /\ DrainOver
    /\ pc' = "ret"
    /\ pending' = inflight
    /\ result' = ShutdownReturn(DrainError)
    /\ log' = ShutdownLog(log, DrainError)
    /\ hist' = Enter(hist, "Stopped")
    /\ UNCHANGED <<rev, timeoutShutdown, domains, lpc, lerr, Stop, notified,
                   inShutdown, mode, tlsConfig, inflight, elapsed, ctx, sigs,
                   dropped, consumed, shutdownCalls, listens, cancels, parked,
                   firstEvent, recv, lnerr, idleAt, regVars, cfgVars,
                   authVars>>

\* Variant of Finish: on an error ServeAndShutdown logs it and waits in
\* Shutdown again instead of ending the process.
FinishRetries ==
    /\ pc = "ret"
    /\ IF result = NilResult
       THEN /\ pc' = "returned"
            /\ ctx' = IF rev = "map" THEN Cancel(ctx) ELSE ctx
            /\ cancels' = IF rev = "map" THEN CancelCount(ctx, cancels)
                          ELSE cancels
            /\ UNCHANGED <<log, hist>>
       ELSE /\ pc' = "select"
            /\ log' = Append(log, <<"error", result.tag, result.err>>)
            /\ hist' = Enter(hist, "Running")
            /\ UNCHANGED <<ctx, cancels>>
    /\ UNCHANGED <<rev, timeoutShutdown, domains, lpc, lerr, Stop, notified,
                   inShutdown, mode, tlsConfig, inflight, elapsed, result,
                   sigs, dropped, consumed, shutdownCalls, listens, parked,
                   firstEvent, recv, pending, lnerr, idleAt, regVars, cfgVars,
                   authVars>>

\* Variant of Finish: the error is logged with Println, and ServeAndShutdown
\* returns normally.
FinishPrints ==
    /\ pc = "ret"
    /\ pc' = "returned"
    /\ log' = IF result = NilResult THEN log
              ELSE Append(log, <<"fatal", result.tag, result.err>>)
    /\ ctx' = IF rev = "map" THEN Cancel(ctx) ELSE ctx
    /\ cancels' = IF rev = "map" THEN CancelCount(ctx, cancels) ELSE cancels
    /\ UNCHANGED <<rev, timeoutShutdown, domains, lpc, lerr, Stop, notified,
                   inShutdown, mode, tlsConfig, inflight, elapsed, result,
                   hist, sigs, dropped, consumed, shutdownCalls, listens,
                   parked, firstEvent, recv, pending, lnerr, idleAt, regVars, cfgVars,
                   authVars>>

\* if err := s.Shutdown(...); err != nil { s.Fatalln(err) }; on the return
\* path part_000 runs its deferred cancel().
FatalLine(r) == <<"fatal", r.tag, r.err>>

Finish ==
    /\ pc = "ret"
    /\ IF result = NilResult
       THEN /\ pc' = "returned"
            /\ ctx' = IF rev = "map" THEN Cancel(ctx) ELSE ctx
            /\ cancels' = IF rev = "map" THEN CancelCount(ctx, cancels)
                          ELSE cancels
            /\ UNCHANGED log
       ELSE /\ pc' = "fatal"
            /\ log' = Append(log, FatalLine(result))
            /\ UNCHANGED <<ctx, cancels>>
    /\ UNCHANGED <<rev, timeoutShutdown, domains, lpc, lerr, Stop, notified,
                   inShutdown, mode, tlsConfig, inflight, elapsed, result,
                   hist, sigs, dropped, consumed, shutdownCalls, listens,
                   parked, firstEvent, recv, pending, lnerr, idleAt, regVars, cfgVars,
                   authVars>>

----------------------------------------------------------------------------
\* The listener goroutine: go func() { s.Stop <- s.ServeAutoCert(domains...) }

\* autocert.HostWhitelist(domains...): the policy accepts the listed hosts.
HostWhitelist(doms) == Range(doms)

\* The manager's TLS configuration answers a handshake for host h only when
\* the host policy accepts h.
HostAllowed(cfg, h) == cfg.set /\ h \in cfg.hosts

\* Variant of ServeAutoCert: only the first domain reaches the host policy.
ServeAutoCertFirstOnly(doms, cfg, serves, h2) ==
    IF Len(doms) = 0
    THEN [mode |-> "plain",
          tlsConfig |-> IF serves /\ h2 /\ cfg.nil THEN DefaultTLS ELSE cfg]
    ELSE [mode |-> "tls",
          tlsConfig |-> [nil |-> FALSE, set |-> TRUE, hosts |-> {doms[1]}]]

\* ServeAutoCert: the listener it starts and the TLSConfig it leaves.  With
\* no domain it assigns nothing itself, but ListenAndServe, once the listener
\* is bound (serves), runs Serve, whose HTTP/2 setup stores a default
\* tls.Config in a server that has none; the setup is on in a default build
\* and off under GODEBUG=http2server=0 (h2).
ServeAutoCert(doms, cfg, serves, h2) ==
    IF Len(doms) = 0
    THEN [mode |-> "plain",
          tlsConfig |-> IF serves /\ h2 /\ cfg.nil THEN DefaultTLS ELSE cfg]
    ELSE [mode |-> "tls",
          tlsConfig |-> [nil |-> FALSE, set |-> TRUE,
                         hosts |-> HostWhitelist(doms)]]

\* ListenAndServe / ListenAndServeTLS begins: it returns ErrServerClosed when
\* the server is already shut down, an error when it cannot bind, and serves
\* otherwise.
ListenerStart ==
    /\ lpc = "spawned"
    /\ Alive
    /\ listens' = listens + 1
    /\ \E bound \in BOOLEAN, h2 \in BOOLEAN :
          /\ mode' = ServeAutoCert(domains, tlsConfig,
                                   ~inShutdown /\ bound, h2).mode
          /\ tlsConfig' = ServeAutoCert(domains, tlsConfig,
                                        ~inShutdown /\ bound, h2).tlsConfig
          /\ IF inShutdown
             THEN lpc' = "returned" /\ lerr' = "closed"
             ELSE IF bound
                  THEN lpc' = "serving" /\ UNCHANGED lerr
                  ELSE lpc' = "returned" /\ lerr' = "bind"
    /\ UNCHANGED <<rev, timeoutShutdown, domains, pc, Stop, notified,
                   inShutdown, inflight, elapsed, ctx, result, log, hist, sigs,
                   dropped, consumed, shutdownCalls, cancels, parked,
                   firstEvent, recv, pending, lnerr, idleAt, regVars, cfgVars,
                   authVars>>

\* The accept loop fails while serving.
ListenerFail ==
    /\ lpc = "serving"
    /\ Alive
    /\ ~inShutdown
    /\ lpc' = "returned"
    /\ lerr' = "accept"
    /\ UNCHANGED <<rev, timeoutShutdown, domains, pc, Stop, notified,
                   inShutdown, mode, tlsConfig, inflight, elapsed, ctx, result,
                   log, hist, sigs, dropped, consumed, shutdownCalls, listens,
                   cancels, parked, firstEvent, recv, pending, lnerr, idleAt, regVars, cfgVars,
                   authVars>>

\* Server.Shutdown closed the listener: serving returns ErrServerClosed.
ListenerClosed ==
    /\ lpc = "serving"
    /\ Alive
    /\ inShutdown
    /\ lpc' = "returned"
    /\ lerr' = "closed"
    /\ UNCHANGED <<rev, timeoutShutdown, domains, pc, Stop, notified,
                   inShutdown, mode, tlsConfig, inflight, elapsed, ctx, result,
                   log, hist, sigs, dropped, consumed, shutdownCalls, listens,
                   cancels, parked, firstEvent, recv, pending, lnerr, idleAt, regVars, cfgVars,
                   authVars>>

\* Variant of ListenerSend: Stop has no buffer, so the send waits for the
\* coordinator to receive.
ListenerSendUnbuffered ==
    /\ lpc = "returned"
    /\ Alive
    /\ pc = "waiting"
    /\ pc' = "gotStop"
    /\ recv' = lerr
    /\ consumed' = consumed + 1
    /\ lpc' = "done"
    /\ firstEvent' = IF firstEvent = "none" THEN "listen" ELSE firstEvent
    /\ UNCHANGED <<rev, timeoutShutdown, domains, lerr, Stop, notified,
                   inShutdown, mode, tlsConfig, inflight, elapsed, ctx, result,
                   log, hist, sigs, dropped, shutdownCalls, listens, cancels,
                   parked, pending, lnerr, idleAt, regVars, cfgVars, authVars>>

\* Variant of ListenerSend: Stop has no buffer and the goroutine does not
\* wait for a receiver, so an error sent before the coordinator waits is lost.
ListenerSendNoBuffer ==
    /\ lpc = "returned"
    /\ Alive
    /\ IF pc = "waiting"
       THEN /\ pc' = "gotStop"
            /\ recv' = lerr
            /\ consumed' = consumed + 1
       ELSE UNCHANGED <<pc, recv, consumed>>
    /\ lpc' = "done"
    /\ firstEvent' = IF firstEvent = "none" THEN "listen" ELSE firstEvent
    /\ UNCHANGED <<rev, timeoutShutdown, domains, lerr, Stop, notified,
                   inShutdown, mode, tlsConfig, inflight, elapsed, ctx, result,
                   log, hist, sigs, dropped, shutdownCalls, listens, cancels,
                   parked, pending, lnerr, idleAt, regVars, cfgVars,
                   authVars>>

\* s.Stop <- err.  A coordinator parked in the select takes the value
\* directly; otherwise the value goes to the buffer while there is room, and
\* the send blocks when there is none.
ListenerSend ==
    /\ lpc = "returned"
    /\ Alive
    /\ IF pc = "waiting"
       THEN /\ pc' = "gotStop"
            /\ recv' = lerr
            /\ consumed' = consumed + 1
            /\ UNCHANGED Stop
       ELSE /\ Len(Stop) < StopCap
            /\ Stop' = Append(Stop, lerr)
            /\ UNCHANGED <<pc, recv, consumed>>
    /\ lpc' = "done"
    /\ firstEvent' = IF firstEvent = "none" THEN "listen" ELSE firstEvent
    /\ UNCHANGED <<rev, timeoutShutdown, domains, lerr, notified, inShutdown,
                   mode, tlsConfig, inflight, elapsed, ctx, result, log, hist,
                   sigs, dropped, shutdownCalls, listens, cancels, parked,
                   pending, lnerr, idleAt, regVars, cfgVars,
                   authVars>>

----------------------------------------------------------------------------
\* The environment.

\* Which source fired first, once a signal has been delivered: the signal
\* when the listener was still starting or serving; neither of the two when
\* the listener had already returned its error and was about to send it.
FirstAfterSignal ==
    IF firstEvent # "none" THEN firstEvent
    ELSE IF lerr = "none" THEN "signal" ELSE "both"

\* SIGINT or SIGTERM reaches the process during ServeAndShutdown.  Before
\* signal.Notify the default disposition ends the process.  After it the
\* signal package offers the signal to quit without waiting: a coordinator
\* parked in the select receives it, otherwise the signal is dropped.
Signal ==
    /\ pc \notin {"idle", "returned", "fatal", "killed"}
    /\ sigs < MaxSignals
    /\ sigs' = sigs + 1
    /\ IF ~notified
       THEN /\ pc' = "killed"
            /\ hist' = Enter(hist, "Stopped")
            /\ UNCHANGED <<dropped, consumed, firstEvent>>
       ELSE /\ firstEvent' = FirstAfterSignal
            /\ IF pc = "waiting"
               THEN /\ pc' = "gotQuit"
                    /\ consumed' = consumed + 1
                    /\ UNCHANGED dropped
               ELSE /\ dropped' = dropped + 1
                    /\ UNCHANGED <<pc, consumed>>
            /\ UNCHANGED hist
    /\ UNCHANGED <<rev, timeoutShutdown, domains, lpc, lerr, Stop, notified,
                   inShutdown, mode, tlsConfig, inflight, elapsed, ctx, result,
                   log, shutdownCalls, listens, cancels, parked, recv,
                   pending, lnerr, idleAt, regVars, cfgVars,
                   authVars>>

\* A client opens a request on the serving listener.
RequestArrive ==
    /\ Alive
    /\ lpc = "serving"
    /\ ~inShutdown
    /\ inflight < MaxInflight
    /\ inflight' = inflight + 1
    /\ UNCHANGED <<rev, timeoutShutdown, domains, pc, lpc, lerr, Stop,
                   notified, inShutdown, mode, tlsConfig, elapsed, ctx, result,
                   log, hist, sigs, dropped, consumed, shutdownCalls, listens,
                   cancels, parked, firstEvent, recv, pending, lnerr, idleAt, regVars, cfgVars,
                   authVars>>

\* A request finishes; its goroutine runs whatever the coordinator does.
RequestDone ==
    /\ Alive
    /\ inflight > 0
    /\ inflight' = inflight - 1
    /\ idleAt' = IF pc \in {"polling", "draining"} /\ inflight = 1
                 THEN elapsed ELSE idleAt
    /\ UNCHANGED <<rev, timeoutShutdown, domains, pc, lpc, lerr, Stop,
                   notified, inShutdown, mode, tlsConfig, elapsed, ctx, result,
                   log, hist, sigs, dropped, consumed, shutdownCalls, listens,
                   cancels, parked, firstEvent, recv, pending, lnerr, regVars,
                   cfgVars, authVars>>

\* A minute of the drain passes; the clock does not stop at the deadline.
Tick ==
    /\ pc \in {"polling", "draining"}
    /\ elapsed < MaxElapsed
    /\ elapsed' = elapsed + 1
    /\ UNCHANGED <<rev, timeoutShutdown, domains, pc, lpc, lerr, Stop,
                   notified, inShutdown, mode, tlsConfig, inflight, ctx, result,
                   log, hist, sigs, dropped, consumed, shutdownCalls, listens,
                   cancels, parked, firstEvent, recv, pending, lnerr, idleAt, regVars, cfgVars,
                   authVars>>

----------------------------------------------------------------------------
Next ==
    \/ Start
    \/ Notify
    \/ Select
    \/ StopBranch
    \/ QuitBranch
    \/ CallServerShutdown
    \/ PollBusy
    \/ PollTimer
    \/ ServerShutdownReturns
    \/ Finish
    \/ ListenerStart
    \/ ListenerFail
    \/ ListenerClosed
    \/ ListenerSend
    \/ Signal
    \/ RequestArrive
    \/ RequestDone
    \/ Tick

Spec == Init /\ [][Next]_vars

----------------------------------------------------------------------------
\* Properties of the shutdown coordination.

PastSelect ==
    pc \in {"gotStop", "gotQuit", "stopping", "polling", "draining", "ret",
            "returned", "fatal"}

Occurrences(h, x) == Cardinality({i \in 1..Len(h) : h[i] = x})

IsPrefix(a, b) == Len(a) <= Len(b) /\ \A i \in 1..Len(a) : a[i] = b[i]

\* C1: whatever signals and listener failures occur during one
\* ServeAndShutdown, the select of Shutdown receives exactly one event (none
\* before it is passed, one after), Running is entered once and left for
\* good, and http.Server.Shutdown is called at most once.
C1_AtMostOneTermination ==
    /\ consumed <= 1
    /\ (PastSelect <=> consumed = 1)
    /\ shutdownCalls <= 1
    /\ Occurrences(hist, "Running") <= 1
    /\ (hist[Len(hist)] = "Running" <=>
            pc \in {"spawned", "select", "waiting", "gotStop", "gotQuit",
                    "stopping"})

C1_Witness ==
    /\ sigs = MaxSignals
    /\ lpc = "done"
    /\ consumed = 1
    /\ shutdownCalls = 1
    /\ pc \in {"returned", "fatal"}

\* C2: when the listener's error wins, the graceful stop has run before
\* Shutdown returns the wrapped listen error.
C2_ListenStillStops ==
    result.tag = "listen" => (shutdownCalls = 1 /\ result.err = lerr)

\* What the code does instead: Shutdown returns the wrapped error the
\* listener reported without calling http.Server.Shutdown at all.
ListenReturnsAtOnce ==
    result.tag = "listen" =>
        /\ shutdownCalls = 0
        /\ ~inShutdown
        /\ result.err = lerr
        /\ lerr \in {"bind", "accept"}

\* C3: the lifecycle runs NotStarted, Running, ShuttingDown,
\* Stopped, each state once, in that order, none skipped (stated for the
\* runs in which Shutdown got to subscribe to the signals).
C3_FullLifecycle == pc # "killed" => IsPrefix(hist, FullLifecycle)

\* What the code does instead: the lifecycle only moves forward and no state
\* is entered twice; ShuttingDown is entered exactly when the select received
\* a termination signal, and is skipped (Running to Stopped) when the
\* listener's error won or a signal ended the process before signal.Notify.
ForwardLifecycle ==
    /\ \/ IsPrefix(hist, FullLifecycle)
       \/ IsPrefix(hist, <<"NotStarted", "Running", "Stopped">>)
    /\ shutdownCalls <= 1
    /\ ("ShuttingDown" \in Range(hist) <=> inShutdown)
    /\ (result.tag = "listen" \/ pc = "killed" =>
            hist = <<"NotStarted", "Running", "Stopped">>)
    /\ (result.tag \in {"nil", "shutdown"} => hist = FullLifecycle)

\* All requests in flight finished before the shutdown timeout elapsed.
DrainedInTime == idleAt # -1 /\ idleAt < timeoutShutdown

\* C4 as claimed: on the signal path, with a positive timeout and no error
\* from closing the listeners, Shutdown
\* returns nil and logs the shutdown-complete line if and only if all
\* requests in flight finished before the timeout elapsed; if the timeout
\* elapsed first it returns the "server shutdown" error and does not log
\* that line.
C4_DrainBound ==
    (pending # -1 /\ timeoutShutdown > 0 /\ lnerr = "none") =>
        /\ (result = NilResult <=> DrainedInTime)
        /\ (~DrainedInTime => result.tag = "shutdown")
        /\ (CompleteLine \in Range(log) <=> DrainedInTime)

\* C4 amended: on the signal path Shutdown returns nil only when every
\* request in flight has finished and closing the listeners gave no error;
\* with a request still in flight it returns the "server shutdown" error of
\* the deadline, and only once the timeout has elapsed; the deadline error is
\* returned only once the timeout has elapsed, the listener-close error only
\* with no request in flight; the shutdown-complete line is logged exactly on
\* the nil return.
C4_DrainOutcome ==
    pending # -1 =>
        /\ result.tag \in {"nil", "shutdown"}
        /\ (result = NilResult =>
                pending = 0 /\ idleAt # -1 /\ lnerr = "none")
        /\ (pending > 0 =>
                result = ShutdownError("deadline")
                    /\ elapsed >= timeoutShutdown)
        /\ (result # NilResult =>
                \/ result = ShutdownError("deadline")
                      /\ elapsed >= timeoutShutdown
                \/ result = ShutdownError("close")
                      /\ lnerr = "close" /\ pending = 0)
        /\ (result = NilResult <=> CompleteLine \in Range(log))

\* The last request finished before the timeout elapsed, after the last poll
\* of Server.Shutdown, and the deadline error is returned.
C4_Witness ==
    /\ pc = "fatal"
    /\ result = ShutdownError("deadline")
    /\ timeoutShutdown > 0
    /\ DrainedInTime
    /\ idleAt > 0
    /\ pending = 0
    /\ lnerr = "none"
    /\ CompleteLine \notin Range(log)

\* C5: the event source that fires first decides the path: a listener result
\* sent before any signal gives the listen error, and after a signal that
\* came first the listener's result does not decide what Shutdown returns.
C5_FirstEventWins ==
    result.tag # "pending" =>
        /\ (firstEvent = "listen" => result.tag = "listen")
        /\ (firstEvent = "signal" => result.tag # "listen")

\* The first event decides the path in every run in which the signal package
\* dropped no signal.
C5_SignalNotDropped ==
    (result.tag # "pending" /\ dropped = 0) =>
        /\ (firstEvent = "listen" => result.tag = "listen")
        /\ (firstEvent = "signal" => result.tag # "listen")

\* C6: a listener error sent before the coordinator waits is kept in Stop
\* and taken when the select is reached: the coordinator is never parked in
\* the select while the listener goroutine has delivered its result, and a
\* select passed without parking received the listener's error.
C6_FailureNotLost ==
    /\ (pc = "waiting" => Len(Stop) = 0 /\ lpc # "done")
    /\ (PastSelect /\ ~parked => recv = lerr /\ recv # "none")
    /\ (pc = "select" => (Len(Stop) = 1 <=> lpc = "done"))

C6_Witness ==
    /\ result.tag = "listen"
    /\ ~parked
    /\ pc = "fatal"

\* C7: where ServeAndShutdown has a context (part_000), it is active while
\* the coordinator waits, canceled once the branch of the winning event has
\* run, whichever event won, canceled before http.Server.Shutdown is called,
\* and it goes from active to canceled once.
C7_CancelOnEvent ==
    ctx # "none" =>
        /\ (pc \in {"spawned", "select", "waiting"} => ctx = "active")
        /\ (pc \in {"stopping", "polling", "draining", "ret", "returned",
                    "fatal"} =>
                ctx = "canceled")
        /\ (inShutdown => ctx = "canceled")
        /\ cancels = (IF ctx = "canceled" THEN 1 ELSE 0)

C7_Witness ==
    /\ rev = "map"
    /\ ctx = "canceled"
    /\ result.tag = "listen"

\* C8: ServeAndShutdown returns exactly when Shutdown returned nil; when
\* Shutdown returned an error the error is the last line logged and the
\* process exits; the listener is started once and never again.
C8_ExitBehavior ==
    /\ (pc = "returned" => result = NilResult)
    /\ (pc = "fatal" =>
            /\ result.tag \in {"listen", "shutdown"}
            /\ log[Len(log)] = FatalLine(result))
    /\ (result = NilResult => pc \in {"ret", "returned"})
    /\ (result.tag \in {"listen", "shutdown"} => pc \in {"ret", "fatal"})
    /\ listens <= 1

C8_Witness ==
    /\ pc = "fatal"
    /\ result.tag = "shutdown"
    /\ listens = 1

\* C9 as claimed: with no domain ServeAutoCert starts the plain listener and
\* leaves TLSConfig as it was; with one domain or more it starts the TLS
\* listener and the host policy accepts the given domains and no other host.
C9_ModeSelection ==
    mode # "none" =>
        IF Len(domains) = 0
        THEN mode = "plain" /\ tlsConfig = NoTLS
        ELSE /\ mode = "tls"
             /\ \A h \in Hosts : HostAllowed(tlsConfig, h) <=> h \in Range(domains)

\* C9 amended: with no domain ServeAutoCert starts the plain listener and
\* assigns no TLSConfig itself: TLSConfig is as it was when the listener
\* could not be bound, and as it was or the default of net/http's Serve once
\* it serves, and in either case allows no host; with one domain or more it
\* starts the TLS listener and the host policy accepts the given domains and
\* no other host.
C9_ModeSelectionServeDefault ==
    mode # "none" =>
        IF Len(domains) = 0
        THEN /\ mode = "plain"
             /\ tlsConfig \in {NoTLS, DefaultTLS}
             /\ (lerr = "bind" => tlsConfig = NoTLS)
             /\ \A h \in Hosts : ~HostAllowed(tlsConfig, h)
        ELSE /\ mode = "tls"
             /\ ~tlsConfig.nil
             /\ \A h \in Hosts : HostAllowed(tlsConfig, h) <=> h \in Range(domains)

C9_Witness ==
    /\ mode = "tls"
    /\ Cardinality(Range(domains)) >= 2
    /\ \E h \in Hosts : ~HostAllowed(tlsConfig, h)

----------------------------------------------------------------------------
\* Handler registration, before the server starts.

\* m[p] = h on a Go map.
MapPut(m, p, h) == [q \in (DOMAIN m) \cup {p} |-> IF q = p THEN h ELSE m[q]]

\* http.HandlerFunc(f): the handler that calls f.
HandlerFunc(f) == <<"HandlerFunc", f>>

\* (*http.ServeMux).Handle / HandleFunc as called by AddHandle, AddHandleFunc
\* and HandlersRegistration: a pattern that is already registered makes the
\* call panic and the mux is left as it was.
MuxHandle(mux, p, h) ==
    IF p \in DOMAIN mux
    THEN [mux |-> mux, panic |-> TRUE]
    ELSE [mux |-> MapPut(mux, p, h), panic |-> FALSE]

\* (*http.ServeMux).HandleFunc(p, f) is Handle(p, HandlerFunc(f)).
MuxHandleFunc(mux, p, f) == MuxHandle(mux, p, HandlerFunc(f))

\* HandlerMap.Add: the caller's map after h.Add(pattern, handler).  On a nil
\* map the method assigns a new map to its own copy of h and stores there.
HandlerMapAdd(hm, p, h) ==
    IF hm.nil THEN hm ELSE [nil |-> FALSE, m |-> MapPut(hm.m, p, h)]

\* HandlersRegistration: a new ServeMux with one HandleFunc per entry of the
\* map (no entry for a nil map) becomes s.Handler.
RECURSIVE RegisterAll(_, _, _)
RegisterAll(mux, m, todo) ==
    IF todo = {} THEN [mux |-> mux, panic |-> FALSE]
    ELSE LET p == CHOOSE q \in todo : TRUE
             r == MuxHandleFunc(mux, p, m[p])
         IN  IF r.panic THEN r ELSE RegisterAll(r.mux, m, todo \ {p})


\* s.router.Handle(pattern, handler)
AddHandle ==
    /\ rev = "serv"
    /\ pc = "idle"
    /\ ~panicked
    /\ nreg < MaxRegs
    /\ \E p \in Patterns, h \in Handlers :
          /\ router' = MuxHandle(router, p, h).mux
          /\ panicked' = MuxHandle(router, p, h).panic
          /\ lastReg' = MapPut(lastReg, p, h)
    /\ nreg' = nreg + 1
    /\ UNCHANGED <<lifeVars, cfgVars, authVars, hmap, handler>>

\* s.router.HandleFunc(pattern, handler)
AddHandleFunc ==
    /\ rev = "serv"
    /\ pc = "idle"
    /\ ~panicked
    /\ nreg < MaxRegs
    /\ \E p \in Patterns, f \in Funcs :
          /\ router' = MuxHandleFunc(router, p, f).mux
          /\ panicked' = MuxHandleFunc(router, p, f).panic
          /\ lastReg' = MapPut(lastReg, p, HandlerFunc(f))
    /\ nreg' = nreg + 1
    /\ UNCHANGED <<lifeVars, cfgVars, authVars, hmap, handler>>

\* handlers.Add(pattern, handler) on the caller's HandlerMap
Add ==
    /\ rev = "map"
    /\ pc = "idle"
    /\ ~panicked
    /\ nreg < MaxRegs
    /\ \E p \in Patterns, f \in Funcs :
          /\ hmap' = HandlerMapAdd(hmap, p, f)
          /\ lastReg' = MapPut(lastReg, p, HandlerFunc(f))
    /\ nreg' = nreg + 1
    /\ UNCHANGED <<lifeVars, cfgVars, authVars, router, handler, panicked>>

\* srv.HandlersRegistration(handlers)
HandlersRegistration ==
    /\ rev = "map"
    /\ pc = "idle"
    /\ ~panicked
    /\ LET r == RegisterAll(<<>>, hmap.m, DOMAIN hmap.m)
       IN  /\ panicked' = r.panic
           /\ handler' = IF r.panic THEN handler
                         ELSE [set |-> TRUE, m |-> r.mux, at |-> nreg]
    /\ UNCHANGED <<lifeVars, cfgVars, authVars, router, hmap, lastReg, nreg>>

RegInit ==
    /\ rev \in Revisions
    /\ timeoutShutdown = DefaultTimeout
    /\ domains = <<>>
    /\ InitLife
    /\ InitReg
    /\ InitCfg("l1", ":4443")
    /\ InitAuth
    /\ hmap \in (IF rev = "map" THEN {NilMap, EmptyMap} ELSE {EmptyMap})

RegNext ==
    \/ AddHandle
    \/ AddHandleFunc
    \/ Add
    \/ HandlersRegistration

RegSpec == RegInit /\ [][RegNext]_vars

\* The routes in effect: the server's router in serv.go, the router that
\* HandlersRegistration installed in part_000.
Routes == IF rev = "serv" THEN router ELSE handler.m

\* C10: registering a pattern again raises no error and leaves the later
\* handler in effect, the other patterns keeping theirs: after any sequence
\* of AddHandle/AddHandleFunc calls, and after HandlersRegistration of a map
\* made by NewHandler and filled by any sequence of Add calls, the routes are
\* the last handler registered for each pattern.
C10_Overwrite ==
    /\ ~panicked
    /\ rev = "serv" => Routes = lastReg
    /\ (rev = "map" /\ ~hmap.nil /\ handler.set /\ handler.at = nreg) =>
            Routes = lastReg

\* The map style alone keeps the later handler.
C10_MapStyleOverwrites ==
    (rev = "map" /\ ~hmap.nil /\ handler.set /\ handler.at = nreg) =>
        ~panicked /\ Routes = lastReg

----------------------------------------------------------------------------
\* Configuration, before the server starts.

\* if logger != nil { s.Logger = logger }
ConfigLogger(cur, l) == IF l # "nil" THEN l ELSE cur

\* Variant of ConfigTimeout: a zero timeout puts the default back.
ConfigTimeoutResets(cur, t) == IF t # 0 THEN t ELSE DefaultTimeout

\* if timeout != 0 { s.timeoutShutdown = timeout }
ConfigTimeout(cur, t) == IF t # 0 THEN t ELSE cur

\* srv.Config(logger, timeout), a method of serv.go only.
Config ==
    /\ rev = "serv"
    /\ pc = "idle"
    /\ ncfg < MaxConfigs
    /\ \E l \in Loggers, t \in TimeoutValues :
          /\ logger' = ConfigLogger(logger, l)
          /\ timeoutShutdown' = ConfigTimeout(timeoutShutdown, t)
          /\ lastCfg' = [l |-> l, t |-> t, logger |-> logger,
                         timeout |-> timeoutShutdown]
    /\ ncfg' = ncfg + 1
    /\ UNCHANGED <<rev, domains, pc, lpc, lerr, Stop, notified, inShutdown,
                   mode, tlsConfig, inflight, elapsed, ctx, result, log, hist,
                   sigs, dropped, consumed, shutdownCalls, listens, cancels,
                   parked, firstEvent, recv, pending, lnerr, idleAt, regVars, errorLog, addr,
                   authVars>>

\* New(listenAddr) of serv.go; New(logger, listenAddr, timeoutShutdown) of
\* part_000 with any logger and any duration.
CfgInit ==
    /\ rev \in Revisions
    /\ domains = <<>>
    /\ InitLife
    /\ InitReg
    /\ InitAuth
    /\ hmap = EmptyMap
    /\ \E l \in Loggers \ {"stdout"}, a \in Addrs : InitCfg(l, a)
    /\ timeoutShutdown \in
          (IF rev = "serv" THEN {DefaultTimeout} ELSE TimeoutValues)

CfgNext ==
    \/ Config
    \/ AddHandle
    \/ AddHandleFunc

CfgSpec == CfgInit /\ [][CfgNext]_vars

\* C11: after New and any Config calls the server is operational: the logger
\* is not nil and the shutdown timeout is positive.
C11_OperationalDefaults == logger # "nil" /\ timeoutShutdown > 0

\* serv.go keeps a logger whatever is configured.
C11_ServLoggerNeverNil == rev = "serv" => logger # "nil"

\* C12: Config sets the parameter given a non-zero value and keeps the
\* other: a nil logger keeps the logger, a zero timeout keeps the timeout;
\* the handlers, the Stop channel and the listen address are never changed.
C12_ConfigFrame ==
    [][ncfg' = ncfg + 1 =>
          /\ logger' = (IF lastCfg'.l # "nil" THEN lastCfg'.l ELSE logger)
          /\ timeoutShutdown' =
                (IF lastCfg'.t # 0 THEN lastCfg'.t ELSE timeoutShutdown)
          /\ UNCHANGED <<router, handler, hmap, Stop, addr>>]_vars

C12_Witness ==
    /\ ncfg = MaxConfigs
    /\ lastCfg.l = "nil"
    /\ lastCfg.t = 0
    /\ logger = lastCfg.logger
    /\ logger = "l2"
    /\ timeoutShutdown = lastCfg.timeout
    /\ timeoutShutdown # DefaultTimeout
    /\ router # <<>>

\* C15: the logger of the coordinator's lines (s.Logger) is the logger of
\* the server's errors (s.Server.ErrorLog).
C15_SameSink == logger = errorLog

----------------------------------------------------------------------------
\* Authentication middleware (serv.go).

AuthFuncs    == {"fa", "fb"}
RedirectUrls == {"/login", "/new"}
ReqPaths     == {"/", "/new", "/login"}

\* The router's answer for a path: the handler of the pattern equal to the
\* path, else the handler of "/", which matches every path, else not found.
MuxLookup(mux, path) ==
    IF path \in DOMAIN mux THEN <<"handler", mux[path]>>
    ELSE IF "/" \in DOMAIN mux THEN <<"handler", mux["/"]>>
    ELSE <<"notfound">>

\* Variant of AuthLayer: the redirect path is not exempt from the check.
AuthLayerChecksAll(layer, req, inner) ==
    IF layer.f \notin req.ok THEN <<"redirect", layer.url>> ELSE inner

\* Variant of AuthLayer: the wrapped handler is not called.
AuthLayerNoHandler(layer, req, inner) ==
    IF req.path # layer.url /\ layer.f \notin req.ok
    THEN <<"redirect", layer.url>>
    ELSE <<"none">>

\* The handler AddAuthFunc installs: if r.URL.Path != redirectUrl && !f(r)
\* it answers with a temporary redirect to redirectUrl, otherwise it calls
\* the handler it wraps (inner is that handler's answer).
AuthLayer(layer, req, inner) ==
    IF req.path # layer.url /\ layer.f \notin req.ok
    THEN <<"redirect", layer.url>>
    ELSE inner

\* s.Handler.ServeHTTP: the layers from the last installed to the first,
\* around the router.
RECURSIVE ServeHTTP(_, _, _, _)
ServeHTTP(layers, k, mux, req) ==
    IF k = 0 THEN MuxLookup(mux, req.path)
    ELSE AuthLayer(layers[k], req, ServeHTTP(layers, k - 1, mux, req))

\* srv.AddAuthFunc(f, redirectUrl)
AddAuthFunc ==
    /\ rev = "serv"
    /\ pc = "idle"
    /\ ~panicked
    /\ Len(auth) < MaxAuth
    /\ \E f \in AuthFuncs, u \in RedirectUrls :
          auth' = Append(auth, [f |-> f, url |-> u])
    /\ UNCHANGED <<lifeVars, regVars, cfgVars, resp>>

\* A request for path, for which the auth functions in ok answer true, is
\* served by s.Handler.
Serve ==
    /\ rev = "serv"
    /\ ~panicked
    /\ \E path \in ReqPaths, ok \in SUBSET AuthFuncs :
          resp' = [path |-> path, ok |-> ok,
                   out |-> ServeHTTP(auth, Len(auth), router,
                                     [path |-> path, ok |-> ok]),
                   at |-> <<nreg, Len(auth)>>]
    /\ UNCHANGED <<lifeVars, regVars, cfgVars, auth>>

AuthInit ==
    /\ rev = "serv"
    /\ timeoutShutdown = DefaultTimeout
    /\ domains = <<>>
    /\ InitLife
    /\ InitReg
    /\ InitCfg("nil", ":4443")
    /\ InitAuth
    /\ hmap = EmptyMap

AuthNext ==
    \/ AddHandle
    \/ AddAuthFunc
    \/ Serve

AuthSpec == AuthInit /\ [][AuthNext]_vars

\* The answer in resp was given by the handlers and layers now installed.
RespCurrent == resp.path # "none" /\ resp.at = <<nreg, Len(auth)>>

\* The layers that refuse the request in resp.
Refusing ==
    {i \in 1..Len(auth) : resp.path # auth[i].url /\ auth[i].f \notin resp.ok}

Outermost(S) == CHOOSE i \in S : \A j \in S : j <= i

\* C13 as claimed: a request for which an installed auth function answers
\* false is redirected and reaches no handler; a request for which the auth
\* functions answer true gets the router's answer for its path (stated for a
\* router that has a handler for every path).
C13_AuthGate ==
    (RespCurrent /\ Len(auth) > 0 /\ "/" \in DOMAIN router) =>
        /\ (\E i \in 1..Len(auth) : auth[i].f \notin resp.ok) =>
                resp.out[1] = "redirect"
        /\ (\A i \in 1..Len(auth) : auth[i].f \in resp.ok) =>
                resp.out = MuxLookup(router, resp.path)

\* C13 amended: a request for a path other than a layer's redirect path, for
\* which that layer's auth function answers false, is redirected to the
\* redirect path of the outermost such layer and reaches no handler; every
\* other request (each layer's auth function answers true or the path is that
\* layer's redirect path) gets the router's answer for its path, whether the
\* handler was registered before or after AddAuthFunc.
C13_AuthGateExceptRedirectPath ==
    (RespCurrent /\ Len(auth) > 0) =>
        IF Refusing # {}
        THEN resp.out = <<"redirect", auth[Outermost(Refusing)].url>>
        ELSE resp.out = MuxLookup(router, resp.path)

C13_Witness ==
    /\ RespCurrent
    /\ Len(auth) = 1
    /\ nreg > 0
    /\ resp.path = auth[1].url
    /\ resp.ok = {}
    /\ resp.out[1] = "handler"

\* C19 as claimed: a request for a redirect path configured with
\* AddAuthFunc is never redirected, whatever the auth functions answer.
C19_AnyRedirectPathOpen ==
    (RespCurrent /\ \E i \in 1..Len(auth) : auth[i].url = resp.path) =>
        resp.out[1] # "redirect"

\* C19 amended: a request for the redirect path is never redirected to that
\* same path; when every AddAuthFunc call configured that path it is not
\* redirected at all, whatever the auth functions answer, and gets the
\* router's answer; it is redirected only by a layer that was configured
\* with another redirect path and whose auth function answers false.
C19_RedirectPathOpen ==
    (RespCurrent /\ Len(auth) > 0) =>
        /\ resp.out # <<"redirect", resp.path>>
        /\ (\A i \in 1..Len(auth) : auth[i].url = resp.path) =>
                resp.out = MuxLookup(router, resp.path)
        /\ resp.out[1] = "redirect" =>
                \E i \in 1..Len(auth) :
                    /\ auth[i].url # resp.path
                    /\ auth[i].f \notin resp.ok
                    /\ resp.out[2] = auth[i].url

C19_Witness ==
    /\ RespCurrent
    /\ Len(auth) = 2
    /\ resp.path = "/login"
    /\ auth[1].url = "/login"
    /\ auth[2].url = "/login"
    /\ resp.ok = {}
    /\ resp.out = <<"handler", "h1">>
    /\ DOMAIN router = {"/"}

----------------------------------------------------------------------------
\* Further properties of the shutdown coordination.

\* The goroutines run and time passes: every step of the coordinator after
\* its select, the listener goroutine's send and the clock of the drain are
\* taken when they stay possible.  The select inside Server.Shutdown picks
\* among its ready cases at random, so the done context is taken eventually
\* although the poll timer keeps firing.
FairInit == Init /\ Len(domains) <= 1

FairSpec ==
    /\ FairInit
    /\ [][Next]_vars
    /\ WF_vars(StopBranch)
    /\ WF_vars(QuitBranch)
    /\ WF_vars(CallServerShutdown)
    /\ WF_vars(PollBusy)
    /\ SF_vars(ServerShutdownReturns)
    /\ WF_vars(Finish)
    /\ WF_vars(ListenerSend)
    /\ WF_vars(Tick)

Position(l, x) == CHOOSE i \in 1..Len(l) : l[i] = x

\* C14: whichever event made Shutdown return, the shutdown-start line has
\* been logged; the shutdown-complete line is logged only after it and only
\* when the graceful stop returned no error.
C14_StartLineAlways ==
    /\ (result.tag # "pending" => StartLine \in Range(log))
    /\ (CompleteLine \in Range(log) =>
            /\ StartLine \in Range(log)
            /\ Position(log, StartLine) < Position(log, CompleteLine)
            /\ result = NilResult)

\* What the code does instead: the start line is logged on the signal path
\* only, before http.Server.Shutdown is called; on the listener-error path
\* neither line is logged.
LogOrder ==
    /\ (pc = "stopping" => StartLine \in Range(log) /\ ~inShutdown)
    /\ (inShutdown => StartLine \in Range(log))
    /\ (CompleteLine \in Range(log) =>
            /\ StartLine \in Range(log)
            /\ Position(log, StartLine) < Position(log, CompleteLine)
            /\ result = NilResult)
    /\ (result.tag = "listen" =>
            StartLine \notin Range(log) /\ CompleteLine \notin Range(log))
    /\ Occurrences(log, StartLine) <= 1
    /\ Occurrences(log, CompleteLine) <= 1

\* Server.Shutdown is in progress.
InDrain == pc \in {"polling", "draining"}

\* C16: ServeAndShutdown has returned or exited only when the server is
\* Stopped and Shutdown has returned; the drain ends only when no request
\* is in flight or the timeout has elapsed, and with requests in flight only
\* by the deadline error; once the timeout has elapsed the drain ends; and
\* once the select has received an event ServeAndShutdown eventually returns
\* or exits.
C16_BlocksUntilTermination ==
    /\ [](pc \in {"returned", "fatal"} =>
            hist[Len(hist)] = "Stopped" /\ result # NoResult)
    /\ [][InDrain /\ ~InDrain' =>
            /\ inflight = 0 \/ elapsed >= timeoutShutdown
            /\ (inflight > 0 => result' = ShutdownError("deadline"))]_vars
    /\ ((InDrain /\ elapsed >= timeoutShutdown) ~> ~InDrain)
    /\ (PastSelect ~> pc \in {"returned", "fatal"})

\* The drain outlasted the timeout before the deadline error came back.
C16_Witness ==
    /\ pc = "fatal"
    /\ result = ShutdownError("deadline")
    /\ timeoutShutdown > 0
    /\ elapsed > timeoutShutdown
    /\ pending > 0

\* C17: while the coordinator has subscribed and has not yet passed its
\* select and the listener is serving, no signal has been dropped.
C17_NoSignalDropped ==
    (notified /\ pc \in {"select", "waiting"} /\ lpc = "serving") =>
        dropped = 0

\* C18: the listener goroutine's send is possible whenever it has a result
\* to send, Stop never holds more than its capacity, and a goroutine that is
\* done has left its result in Stop or handed it to the select.
C18_SendNeverBlocks ==
    /\ (lpc = "returned" /\ Alive => ENABLED ListenerSend)
    /\ Len(Stop) <= StopCap
    /\ (lpc = "done" => Stop = <<lerr>> \/ recv = lerr)

C18_Witness ==
    /\ lpc = "done"
    /\ lerr = "closed"
    /\ Stop = <<"closed">>
    /\ pc = "returned"
    /\ consumed = 1

\* C20: after h.Add(pattern, handler) the caller's map holds the handler for
\* the pattern, on a nil map too, and HandlersRegistration of the map
\* registers it.
C20_AddStores ==
    rev = "map" =>
        /\ ~panicked
        /\ \A p \in DOMAIN lastReg :
              p \in DOMAIN hmap.m /\ HandlerFunc(hmap.m[p]) = lastReg[p]
        /\ (handler.set /\ handler.at = nreg => Routes = lastReg)

====
